---- MODULE Spec2Model ----
(***************************************************************************)
(* Model of pug_html_locator (src/src/main.rs): a depth-first traversal of *)
(* a Pug syntax tree that appends HTML text to an output buffer and        *)
(* records which output spans come from which source spans.                *)
(*                                                                         *)
(* Text is a sequence of one-character strings, so that lengths are byte   *)
(* lengths and letter case is visible.  A syntax node is a record          *)
(*   [kind, named, start, end, children]                                   *)
(* with a half-open byte range [start, end) into the source text.          *)
(***************************************************************************)
EXTENDS Integers, Sequences, FiniteSets, TLC

\* pug_text : State.pug_text, the source; state : State (output, records);
\* todo : the root's named children not yet traversed; cur, prev : the node
\* of the last traverse_tree call at the root and the state before that call;
\* pc : where main stands; result : what main printed; calls : push_range
\* calls made so far in the push_range-only specification
VARIABLES pug_text, todo, cur, prev, state, pc, result, calls

vars == <<pug_text, todo, cur, prev, state, pc, result, calls>>

(* ------------------------------ bounds -------------------------------- *)

\* longest attribute list of an attributes block
MaxAttrs == 2
\* most interpolations nested in one content block
MaxInterp == 2
\* most push_range calls in the push_range-only specification
MaxPushes == 4

(* ------------------------------ values -------------------------------- *)

\* Option::None
None == [none |-> TRUE]

\* tree_sitter::Range of a node (start_byte, end_byte)
NodeRange(node) == [start_byte |-> node.start, end_byte |-> node.end]

\* node.utf8_text(source): the bytes of source in the node's range
utf8_text(node, source) == SubSeq(source, node.start + 1, node.end)

\* node.named_children(..): the named children, in document order
named_children(node) == SelectSeq(node.children, LAMBDA c : c.named)

\* State { html_text, ranges } before traversal; panicked records an unwrap
\* on None, diag the kinds printed as "Unhandled node type"
EmptyState == [html_text |-> <<>>, ranges |-> <<>>, panicked |-> FALSE, diag |-> <<>>]

\* a failed unwrap(): the thread panics and nothing more is executed
Panic(st) == [st EXCEPT !.panicked = TRUE]

(* ------------------------- literal output text ------------------------ *)

Lt == <<"<">>
Gt == <<">">>
Space == <<" ">>
Eq == <<"=">>
Quote == <<"'">>
CommaSpace == <<",", " ">>
SlashGt == <<"/", ">">>
ScriptOpen == <<"<", "s", "c", "r", "i", "p", "t", ">", "r", "e", "t", "u", "r", "n", " ">>
ScriptClose == <<";", "<", "/", "s", "c", "r", "i", "p", "t", ">">>
\* format!("</{}>", name)
CloseTag(name) == <<"<", "/">> \o name \o <<">">>

(* ------------------------- void-element classifier --------------------- *)

VoidNames ==
    { <<"a", "r", "e", "a">>, <<"b", "a", "s", "e">>, <<"b", "r">>, <<"c", "o", "l">>,
      <<"e", "m", "b", "e", "d">>, <<"h", "r">>, <<"i", "m", "g">>,
      <<"i", "n", "p", "u", "t">>, <<"l", "i", "n", "k">>, <<"m", "e", "t", "a">>,
      <<"p", "a", "r", "a", "m">>, <<"s", "o", "u", "r", "c", "e">>,
      <<"t", "r", "a", "c", "k">>, <<"w", "b", "r">> }

\* is_void_element: an exact, case-sensitive match on the name as given
is_void_element(tag_name) == tag_name \in VoidNames

(* ------------------------- the output recorder ------------------------ *)

\* faulty variant: the record's start is taken after the text was appended
push_range_late_start(st, to_push, pug_range) ==
    IF st.panicked THEN st
    ELSE LET html_len == Len(st.html_text) + Len(to_push)
             ranges == IF pug_range = None THEN st.ranges
                       ELSE Append(st.ranges,
                                [html_start |-> html_len,
                                 html_end |-> html_len + Len(to_push),
                                 pug_start |-> pug_range.start_byte,
                                 pug_end |-> pug_range.end_byte])
         IN  [st EXCEPT !.ranges = ranges, !.html_text = @ \o to_push]

\* push_range: with Some(range) a record [html_len, html_len + len) is
\* pushed first; the text is appended in every case
push_range(st, to_push, pug_range) ==
    IF st.panicked THEN st
    ELSE LET html_len == Len(st.html_text)
             ranges == IF pug_range = None THEN st.ranges
                       ELSE Append(st.ranges,
                                [html_start |-> html_len,
                                 html_end |-> html_len + Len(to_push),
                                 pug_start |-> pug_range.start_byte,
                                 pug_end |-> pug_range.end_byte])
         IN  [st EXCEPT !.ranges = ranges, !.html_text = @ \o to_push]

\* faulty variant: the surrounding text is recorded together with the inner text
push_range_surround_recorded(st, to_push, pug_range, surround) ==
    push_range(st, surround \o to_push \o surround, pug_range)

\* push_range_surround: surround unrecorded, inner text recorded, surround
push_range_surround(st, to_push, pug_range, surround) ==
    push_range(push_range(push_range(st, surround, None), to_push, pug_range),
               surround, None)

\* the three pushes of an inert marker: "<script>return ", the text recorded
\* against pug_range, ";</script>"
push_marker(st, text, pug_range) ==
    push_range(push_range(push_range(st, ScriptOpen, None), text, pug_range),
               ScriptClose, None)

(* ------------------------------ TreeCursor ----------------------------- *)

\* node.walk(): a cursor rooted at node; path is the child indices walked
walk(node) == [root |-> node, path |-> <<>>]

RECURSIVE NodeAt(_, _)
NodeAt(node, path) ==
    IF path = <<>> THEN node ELSE NodeAt(node.children[Head(path)], Tail(path))

\* cursor.node()
cursor_node(c) == NodeAt(c.root, c.path)

\* cursor.goto_first_child(): moves only when the node has a child
goto_first_child(c) ==
    IF Len(cursor_node(c).children) > 0 THEN [c EXCEPT !.path = Append(@, 1)] ELSE c

\* whether cursor.goto_next_sibling() returns true: never at the cursor's
\* root, and only when a later sibling exists
has_next_sibling(c) ==
    /\ c.path # <<>>
    /\ LET parent == NodeAt(c.root, SubSeq(c.path, 1, Len(c.path) - 1))
       IN  c.path[Len(c.path)] < Len(parent.children)

\* cursor.goto_next_sibling(): stays in place when it returns false
goto_next_sibling(c) ==
    IF has_next_sibling(c) THEN [c EXCEPT !.path[Len(c.path)] = @ + 1] ELSE c

(* ------------------------------ renderers ------------------------------ *)

RECURSIVE traverse_tree(_, _, _)

\* faulty variant: the separator is pushed before every attribute, the first included
visit_attribute_always_separated(attribute, first, source, st) ==
    LET s0 == push_range(st, CommaSpace, None)
        children == named_children(attribute)
    IN  IF children = <<>> THEN Panic(s0)
        ELSE LET attribute_name == children[1]
                 name_text == utf8_text(attribute_name, source)
                 s1 == push_range(s0, name_text, NodeRange(attribute_name))
                 s2 == push_range(s1, Eq, None)
             IN  IF Len(children) >= 2
                 THEN LET attribute_value == children[2]
                          text == utf8_text(attribute_value, source)
                      IN  IF attribute_value.kind = "javascript"
                          THEN push_range_surround(s2, text, NodeRange(attribute_value), Quote)
                          ELSE IF attribute_value.kind = "quoted_attribute_value"
                          THEN push_range(s2, text, NodeRange(attribute_value))
                          ELSE s2
                 ELSE push_range_surround(s2, name_text, NodeRange(attribute_name), Quote)

\* one iteration of visit_attributes' loop: ", " unless first; the first
\* named child is unwrapped as the name, the second (if any) is the value
visit_attribute(attribute, first, source, st) ==
    LET s0 == IF ~first THEN push_range(st, CommaSpace, None) ELSE st
        children == named_children(attribute)
    IN  IF children = <<>> THEN Panic(s0)
        ELSE LET attribute_name == children[1]
                 name_text == utf8_text(attribute_name, source)
                 s1 == push_range(s0, name_text, NodeRange(attribute_name))
                 s2 == push_range(s1, Eq, None)
             IN  IF Len(children) >= 2
                 THEN LET attribute_value == children[2]
                          text == utf8_text(attribute_value, source)
                      IN  IF attribute_value.kind = "javascript"
                          THEN push_range_surround(s2, text, NodeRange(attribute_value), Quote)
                          ELSE IF attribute_value.kind = "quoted_attribute_value"
                          THEN push_range(s2, text, NodeRange(attribute_value))
                          ELSE s2
                 ELSE push_range_surround(s2, name_text, NodeRange(attribute_name), Quote)

\* the for loop of visit_attributes over the remaining attributes
RECURSIVE visit_attributes_loop(_, _, _, _)
visit_attributes_loop(attributes, first, source, st) ==
    IF attributes = <<>> \/ st.panicked THEN st
    ELSE visit_attributes_loop(Tail(attributes), FALSE, source,
                               visit_attribute(Head(attributes), first, source, st))

\* visit_attributes
visit_attributes(node, source, st) ==
    visit_attributes_loop(named_children(node), TRUE, source, st)

\* the for loop of visit_tag over the children after the name; yields the
\* state and has_closed_open_tag when the loop ends or breaks
RECURSIVE visit_tag_children(_, _, _, _, _)
visit_tag_children(child_nodes, name, has_closed_open_tag, source, st) ==
    IF child_nodes = <<>> \/ st.panicked
    THEN [state |-> st, has_closed_open_tag |-> has_closed_open_tag]
    ELSE LET child_node == Head(child_nodes)
         IN  IF child_node.kind = "attributes"
             THEN visit_tag_children(Tail(child_nodes), name, has_closed_open_tag, source,
                      traverse_tree(child_node, source, push_range(st, Space, None)))
             ELSE IF is_void_element(name)
             THEN [state |-> push_range(st, SlashGt, None),
                   has_closed_open_tag |-> has_closed_open_tag]
             ELSE LET s1 == IF ~has_closed_open_tag THEN push_range(st, Gt, None) ELSE st
                      s2 == IF child_node.kind \in {"content", "children"}
                            THEN traverse_tree(child_node, source, s1)
                            ELSE s1
                  IN  visit_tag_children(Tail(child_nodes), name, TRUE, source, s2)

\* visit_tag: the first named child is unwrapped as the name, whatever its kind
visit_tag(node, source, st) ==
    LET child_nodes == named_children(node)
    IN  IF child_nodes = <<>> THEN Panic(st)
        ELSE LET name_node == Head(child_nodes)
                 name == utf8_text(name_node, source)
                 s1 == push_range(push_range(st, Lt, None), name, NodeRange(name_node))
                 after == visit_tag_children(Tail(child_nodes), name, FALSE, source, s1)
                 s2 == IF ~after.has_closed_open_tag
                       THEN push_range(after.state, Gt, None)
                       ELSE after.state
             IN  IF ~is_void_element(name) THEN push_range(s2, CloseTag(name), None) ELSE s2

\* traverse_tree on each node of a sequence, in order
RECURSIVE traverse_each(_, _, _)
traverse_each(nodes, source, st) ==
    IF nodes = <<>> \/ st.panicked THEN st
    ELSE traverse_each(Tail(nodes), source, traverse_tree(Head(nodes), source, st))

\* faulty variant: the cursor is not advanced past the condition expression
visit_conditional_no_advance(node, source, st) ==
    LET c1 == goto_next_sibling(goto_first_child(walk(node)))
        is_js == cursor_node(c1).kind = "javascript"
        condition == cursor_node(c1)
        s1 == IF is_js THEN push_marker(st, utf8_text(condition, source), NodeRange(condition))
              ELSE st
        c3 == goto_next_sibling(c1)
    IN  traverse_each(named_children(cursor_node(c3)), source, s1)

\* visit_conditional: the second child, if "javascript", becomes a marker and
\* the cursor moves on; after one more move the named children of the node
\* under the cursor are traversed
visit_conditional(node, source, st) ==
    LET c1 == goto_next_sibling(goto_first_child(walk(node)))
        is_js == cursor_node(c1).kind = "javascript"
        condition == cursor_node(c1)
        s1 == IF is_js THEN push_marker(st, utf8_text(condition, source), NodeRange(condition))
              ELSE st
        c2 == IF is_js THEN goto_next_sibling(c1) ELSE c1
        c3 == goto_next_sibling(c2)
    IN  traverse_each(named_children(cursor_node(c3)), source, s1)

\* the while loop of visit_pipe: every later sibling, traversed when named
RECURSIVE visit_pipe_loop(_, _, _)
visit_pipe_loop(cursor, source, st) ==
    IF ~has_next_sibling(cursor) \/ st.panicked THEN st
    ELSE LET c == goto_next_sibling(cursor)
         IN  visit_pipe_loop(c, source,
                 IF cursor_node(c).named THEN traverse_tree(cursor_node(c), source, st)
                 ELSE st)

\* visit_pipe
visit_pipe(node, source, st) ==
    visit_pipe_loop(goto_first_child(walk(node)), source, st)

\* faulty variant: the cursor stays on the first child
visit_tag_interpolation_first_child(node, source, st) ==
    LET c == goto_first_child(walk(node))
    IN  traverse_each(named_children(cursor_node(c)), source, st)

\* visit_tag_interpolation: the named children of the node the cursor
\* reaches after goto_first_child and goto_next_sibling are traversed
visit_tag_interpolation(node, source, st) ==
    LET c == goto_next_sibling(goto_first_child(walk(node)))
    IN  traverse_each(named_children(cursor_node(c)), source, st)

\* the "escaped_string_interpolation" arm: a marker for the first named child
traverse_string_interpolation(node, source, st) ==
    LET children == named_children(node)
    IN  IF children = <<>> THEN st
        ELSE LET interpolation_content == Head(children)
             IN  push_marker(st, utf8_text(interpolation_content, source),
                             NodeRange(interpolation_content))

\* faulty variant: the content text is pushed before its interpolations
traverse_content_text_first(node, source, st) ==
    traverse_each(named_children(node), source,
                  push_range(st, utf8_text(node, source), NodeRange(node)))

\* the "content" arm: the named children first, then the whole content text
traverse_content(node, source, st) ==
    push_range(traverse_each(named_children(node), source, st),
               utf8_text(node, source), NodeRange(node))

\* traverse_tree: dispatch on the kind of a named node
traverse_tree(node, source, st) ==
    IF st.panicked \/ ~node.named THEN st
    ELSE CASE node.kind \in {"source_file", "children"} ->
                  traverse_each(named_children(node), source, st)
           [] node.kind = "escaped_string_interpolation" ->
                  traverse_string_interpolation(node, source, st)
           [] node.kind = "tag_interpolation" -> visit_tag_interpolation(node, source, st)
           [] node.kind = "pipe" -> visit_pipe(node, source, st)
           [] node.kind = "conditional" -> visit_conditional(node, source, st)
           [] node.kind = "tag" -> visit_tag(node, source, st)
           [] node.kind = "attributes" -> visit_attributes(node, source, st)
           [] node.kind = "content" -> traverse_content(node, source, st)
           [] node.kind \in {"keyword", "mixin_attributes", "comment"} -> st
           [] OTHER -> [st EXCEPT !.diag = Append(@, node.kind)]

(* ------------------- syntax trees handed to the traversal -------------- *)
(* The parser is external: parse trees are built here from layouts, whose  *)
(* leaves carry their text.  Place lays a layout out over the source text  *)
(* and yields the node with its byte range; a "_gap" leaf is source text   *)
(* that belongs to no child node (whitespace, literal text of a content).  *)

Leaf(kind, text) == [kind |-> kind, named |-> TRUE, text |-> text, kids |-> <<>>]
Anon(text) == [kind |-> "anon", named |-> FALSE, text |-> text, kids |-> <<>>]
Gap(text) == [kind |-> "_gap", named |-> FALSE, text |-> text, kids |-> <<>>]
Branch(kind, kids) == [kind |-> kind, named |-> TRUE, text |-> <<>>, kids |-> kids]

RECURSIVE Flat(_)
RECURSIVE FlatKids(_)
\* the source text of a layout
Flat(t) == IF t.kids = <<>> THEN t.text ELSE FlatKids(t.kids)
FlatKids(kids) == IF kids = <<>> THEN <<>> ELSE Flat(Head(kids)) \o FlatKids(Tail(kids))

RECURSIVE Place(_, _)
RECURSIVE PlaceKids(_, _)
\* the syntax node of layout t when its text starts at byte off
Place(t, off) ==
    [kind |-> t.kind, named |-> t.named, start |-> off, end |-> off + Len(Flat(t)),
     children |-> PlaceKids(t.kids, off)]
PlaceKids(kids, off) ==
    IF kids = <<>> THEN <<>>
    ELSE LET k == Head(kids)
         IN  (IF k.kind = "_gap" THEN <<>> ELSE <<Place(k, off)>>)
             \o PlaceKids(Tail(kids), off + Len(Flat(k)))

RECURSIVE Concat(_)
\* the concatenation of a sequence of sequences
Concat(ss) == IF ss = <<>> THEN <<>> ELSE Head(ss) \o Concat(Tail(ss))

T_div == <<"d", "i", "v">>
T_br == <<"b", "r">>
T_BR == <<"B", "R">>
T_p == <<"p">>
T_hi == <<"h", "i">>
T_cond == <<"x", " ", ">", " ", "1">>

TagNames == {T_div, T_br, T_BR}

\* attribute shapes: no value, raw expression value, quoted value, a value
\* of another kind, and two that break the grammar's shape (no named child
\* at all, a value but no name)
AttrKinds == {"bool", "js", "quoted", "other", "empty", "valueonly"}

AttrNameText(i) == IF i % 2 = 1 THEN <<"a">> ELSE <<"o", "k">>

AttrLayout(k, i) ==
    LET name == Leaf("attribute_name", AttrNameText(i))
        js == Leaf("javascript", <<"u", " ", "?", " ", "1">>)
    IN  CASE k = "bool" -> Branch("attribute", <<name>>)
          [] k = "js" -> Branch("attribute", <<name, Anon(<<"=">>), js>>)
          [] k = "quoted" ->
                 Branch("attribute",
                        <<name, Anon(<<"=">>),
                          Leaf("quoted_attribute_value", <<"\"", "q", "\"">>)>>)
          [] k = "other" ->
                 Branch("attribute", <<name, Anon(<<"=">>), Leaf("number", <<"7">>)>>)
          [] k = "empty" -> Branch("attribute", <<Anon(<<"?">>)>>)
          [] k = "valueonly" -> Branch("attribute", <<Anon(<<"=">>), js>>)

AttrSeqs == UNION { [1..n -> AttrKinds] : n \in 0..MaxAttrs }

\* "(" attribute ("," " " attribute)* ")"
AttributesLayout(ks) ==
    Branch("attributes",
           <<Anon(<<"(">>)>>
           \o Concat([i \in 1..Len(ks) |->
                         (IF i > 1 THEN <<Anon(<<",">>), Gap(<<" ">>)>> ELSE <<>>)
                         \o <<AttrLayout(ks[i], i)>>])
           \o <<Anon(<<")">>)>>)

PlainContent == Leaf("content", T_hi)

\* tag p with no child; tag p with a content
TagP == Branch("tag", <<Leaf("tag_name", T_p)>>)
TagPContent == Branch("tag", <<Leaf("tag_name", T_p), Gap(<<" ">>), PlainContent>>)

\* shapes of a tag interpolation after its "#[" delimiter
TagInterpKinds == {"tag", "flat", "bare", "children"}

TagInterpLayout(v) ==
    CASE v = "tag" -> Branch("tag_interpolation", <<Anon(<<"#", "[">>), TagPContent, Anon(<<"]">>)>>)
      [] v = "flat" ->
             Branch("tag_interpolation",
                    <<Anon(<<"#", "[">>), Leaf("tag_name", T_p), Gap(<<" ">>), PlainContent,
                      Anon(<<"]">>)>>)
      [] v = "bare" -> Branch("tag_interpolation", <<Anon(<<"#", "[">>)>>)
      [] v = "children" ->
             Branch("tag_interpolation",
                    <<Anon(<<"#", "[">>), Branch("children", <<TagP, TagPContent>>),
                      Anon(<<"]">>)>>)

\* what a content nests: a string interpolation with its expression, one
\* without (breaks the grammar's shape), a tag interpolation
InterpKinds == {"expr", "empty", "tagi"}

ExprText(i) == IF i % 2 = 1 THEN <<"v">> ELSE <<"w", "2">>

InterpLayout(k, i) ==
    CASE k = "expr" ->
             Branch("escaped_string_interpolation",
                    <<Anon(<<"#", "{">>), Leaf("interpolation_content", ExprText(i)),
                      Anon(<<"}">>)>>)
      [] k = "empty" ->
             Branch("escaped_string_interpolation", <<Anon(<<"#", "{">>), Anon(<<"}">>)>>)
      [] k = "tagi" -> TagInterpLayout("tag")

InterpSeqs == UNION { [1..n -> InterpKinds] : n \in 0..MaxInterp }

\* literal text "hi", then each interpolation followed by literal "!"
ContentLayout(ks) ==
    Branch("content",
           <<Gap(T_hi)>>
           \o Concat([i \in 1..Len(ks) |-> <<InterpLayout(ks[i], i), Gap(<<"!">>)>>]))

\* the blocks after a tag's name: A attributes, C content, H children, in
\* every order of every subset
PartOrders ==
    { s \in UNION { [1..n -> {"A", "C", "H"}] : n \in 0..3 } :
        \A i, j \in 1..Len(s) : i # j => s[i] # s[j] }

PartLayout(part) ==
    CASE part = "A" -> <<AttributesLayout(<<"bool">>)>>
      [] part = "C" -> <<Gap(<<" ">>), PlainContent>>
      [] part = "H" -> <<Gap(<<" ">>), Branch("children", <<TagP>>)>>

TagLayout(name, parts) ==
    Branch("tag",
           <<Leaf("tag_name", name)>>
           \o Concat([i \in 1..Len(parts) |-> PartLayout(parts[i])]))

\* conditional shapes: keyword, condition or none, a statement keyword or
\* none, and a body block or none
CondBodies == {"none", "empty", "one", "two"}

BodyLayout(b) ==
    CASE b = "none" -> <<>>
      [] b = "empty" -> <<Branch("children", <<>>)>>
      [] b = "one" -> <<Gap(<<" ">>), Branch("children", <<TagP>>)>>
      [] b = "two" ->
             <<Gap(<<" ">>), Branch("children", <<TagP, Gap(<<" ">>), TagPContent>>)>>

CondLayout(has_cond, filler, b) ==
    Branch("conditional",
           (IF has_cond
            THEN <<Leaf("keyword", <<"i", "f">>), Gap(<<" ">>), Leaf("javascript", T_cond)>>
            ELSE <<Leaf("keyword", <<"e", "l", "s", "e">>)>>)
           \o (IF filler THEN <<Anon(<<":">>)>> ELSE <<>>)
           \o BodyLayout(b))

PipeLayouts ==
    { Branch("pipe", <<Anon(<<"|">>)>>),
      Branch("pipe", <<Anon(<<"|">>), Gap(<<" ">>), PlainContent>>),
      Branch("pipe", <<Anon(<<"|">>), Gap(<<" ">>), ContentLayout(<<"expr">>), Anon(<<";">>),
                       TagP>>) }

\* tags that break the grammar's shape: no named child; attributes where
\* the name should be
MalformedTags ==
    { Branch("tag", <<Anon(<<".">>)>>),
      Branch("tag", <<AttributesLayout(<<"bool">>), Gap(<<" ">>), PlainContent>>) }

OtherLayouts ==
    { Leaf("comment", <<"/", "/", "c">>), Leaf("keyword", <<"d", "o">>),
      Leaf("mixin_attributes", <<"&">>), Leaf("each", <<"e", "a", "c", "h">>),
      Branch("children", <<TagP, TagPContent>>) }

Items ==
    { TagLayout(name, parts) : name \in TagNames, parts \in PartOrders }
    \cup { TagLayout(T_div, <<>>) }
    \cup { Branch("tag", <<Leaf("tag_name", T_div), AttributesLayout(ks)>>) : ks \in AttrSeqs }
    \cup { ContentLayout(ks) : ks \in InterpSeqs }
    \cup { TagInterpLayout(v) : v \in TagInterpKinds }
    \cup { CondLayout(c, f, b) : c \in BOOLEAN, f \in BOOLEAN, b \in CondBodies }
    \cup PipeLayouts \cup MalformedTags \cup OtherLayouts

\* what may precede and follow the item under the root
Before ==
    { <<>>, <<Leaf("comment", <<"/", "/", "c">>), Gap(<<" ">>)>>, <<TagPContent, Gap(<<" ">>)>>,
      <<Leaf("each", <<"e", "a", "c", "h">>), Gap(<<" ">>)>> }
After == { <<>>, <<Gap(<<" ">>), TagP>> }

\* the input main is written with (pug_input): the tag "tag" with an
\* expression-valued and a valueless attribute, and the tag "tag_two" with
\* a valueless attribute nested below it
T_tag == <<"t", "a", "g">>
T_tag_two == <<"t", "a", "g", "_", "t", "w", "o">>
T_attribute == <<"a", "t", "t", "r", "i", "b", "u", "t", "e">>
T_isAuthenticated ==
    <<"i", "s", "A", "u", "t", "h", "e", "n", "t", "i", "c", "a", "t", "e", "d",
          " ", "?", " ", "t", "r", "u", "e", " ", ":", " ", "f", "a", "l", "s", "e">>

MainLayout ==
    LET bare == Branch("attribute", <<Leaf("attribute_name", T_attribute)>>)
        valued == Branch("attribute",
                         <<Leaf("attribute_name", T_attribute), Anon(<<"=">>),
                           Leaf("javascript", T_isAuthenticated)>>)
        tag_two == Branch("tag",
                          <<Leaf("tag_name", T_tag_two),
                            Branch("attributes", <<Anon(<<"(">>), bare, Anon(<<")">>)>>)>>)
        tag == Branch("tag",
                      <<Leaf("tag_name", T_tag),
                        Branch("attributes",
                               <<Anon(<<"(">>), valued, Anon(<<",">>), Gap(<<" ">>), bare,
                                 Anon(<<")">>)>>),
                        Gap(<<"\n", " ", " ", " ", " ", " ", " ", " ", " ", " ", " ">>),
                        Branch("children", <<tag_two>>)>>)
    IN  Branch("source_file",
               <<Gap(<<"\n", " ", " ", " ", " ", " ", " ", " ", " ">>), tag,
                 Gap(<<"\n", " ", " ", " ", " ">>)>>)

\* the layouts main may be run on: its own input, and one item between an
\* optional earlier and an optional later sibling
Layouts ==
    { MainLayout }
    \cup { Branch("source_file", pre \o <<item>> \o post) :
             pre \in Before, item \in Items, post \in After }

(* --------------------------------- main -------------------------------- *)

\* main up to the call of traverse_tree: the source is parsed, the state is
\* empty, and the root's named children await traversal
Init ==
    \E layout \in Layouts :
        LET root_node == Place(layout, 0)
        IN  /\ pug_text = Flat(layout)
            /\ todo = named_children(root_node)
            /\ cur = None
            /\ prev = EmptyState
            /\ state = EmptyState
            /\ pc = "traverse"
            /\ result = None
            /\ calls = 0

\* one iteration of the root's loop over its named children: traverse_tree
\* on the next child; a panic unwinds main and drops the output and the
\* records, while the diagnostics already printed stay printed
Visit ==
    /\ pc = "traverse"
    /\ todo # <<>>
    /\ LET next == traverse_tree(Head(todo), pug_text, state)
       IN  /\ cur' = Head(todo)
           /\ prev' = state
           /\ todo' = Tail(todo)
           /\ IF next.panicked
              THEN /\ pc' = "aborted"
                   /\ state' = [EmptyState EXCEPT !.panicked = TRUE, !.diag = next.diag]
              ELSE /\ pc' = pc
                   /\ state' = next
    /\ UNCHANGED <<pug_text, result, calls>>

\* main after traverse_tree returned: the output text and, per record, the
\* output slice and the source slice are printed
Finish ==
    /\ pc = "traverse"
    /\ todo = <<>>
    /\ pc' = "done"
    /\ result' =
           [html_text |-> state.html_text,
            pairs |-> [i \in 1..Len(state.ranges) |->
                          [html |-> SubSeq(state.html_text, state.ranges[i].html_start + 1,
                                           state.ranges[i].html_end),
                           pug |-> SubSeq(pug_text, state.ranges[i].pug_start + 1,
                                          state.ranges[i].pug_end)]]]
    /\ UNCHANGED <<pug_text, todo, cur, prev, state, calls>>

Next == Visit \/ Finish

Spec == Init /\ [][Next]_vars

(* ----------------- push_range under arbitrary call sequences ----------- *)

PushTexts == { <<>>, <<"a">>, <<"<", "b">> }
PushRanges == { None, [start_byte |-> 0, end_byte |-> 1], [start_byte |-> 1, end_byte |-> 3] }

InitPush ==
    /\ pug_text = <<"a", "<", "b">>
    /\ todo = <<>>
    /\ cur = None
    /\ prev = EmptyState
    /\ state = EmptyState
    /\ pc = "push"
    /\ result = None
    /\ calls = 0

\* one call push_range(state, to_push, pug_range)
PushRangeCall ==
    /\ pc = "push"
    /\ calls < MaxPushes
    /\ \E to_push \in PushTexts, pug_range \in PushRanges :
           state' = push_range(state, to_push, pug_range)
    /\ prev' = state
    /\ calls' = calls + 1
    /\ UNCHANGED <<pug_text, todo, cur, pc, result>>

NextPush == PushRangeCall

SpecPush == InitPush /\ [][NextPush]_vars

(* ======================= properties of the traversal =================== *)

\* the last traverse_tree call at the root returned (no panic)
Visited == cur # None /\ pc # "aborted"

\* the text and the records that call added
Appended == SubSeq(state.html_text, Len(prev.html_text) + 1, Len(state.html_text))
NewRanges == SubSeq(state.ranges, Len(prev.ranges) + 1, Len(state.ranges))

IsPrefix(p, s) == Len(p) <= Len(s) /\ SubSeq(s, 1, Len(p)) = p

\* the grammar's shape of a tag: a tag_name first, then attributes, content
\* and children blocks
TagShaped(node) ==
    /\ node.kind = "tag"
    /\ named_children(node) # <<>>
    /\ named_children(node)[1].kind = "tag_name"
    /\ \A i \in 2..Len(named_children(node)) :
           named_children(node)[i].kind \in {"attributes", "content", "children"}

\* the grammar's shape of an attribute: a name, then at most one value
AttributeShaped(a) ==
    /\ Len(named_children(a)) \in {1, 2}
    /\ named_children(a)[1].kind = "attribute_name"

TagNameOf(node) == utf8_text(named_children(node)[1], pug_text)

\* the attributes blocks among a tag's named children
AttributeBlocks(node) ==
    { named_children(node)[i] : i \in { j \in 2..Len(named_children(node)) :
                                          named_children(node)[j].kind = "attributes" } }

\* the attribute rendering the specification describes
ExpectedAttribute(a) ==
    LET name == utf8_text(named_children(a)[1], pug_text)
    IN  name \o Eq \o
        (IF Len(named_children(a)) = 1 THEN Quote \o name \o Quote
         ELSE LET value == named_children(a)[2]
              IN  IF value.kind = "javascript"
                  THEN Quote \o utf8_text(value, pug_text) \o Quote
                  ELSE utf8_text(value, pug_text))

\* the renderings joined by ", "
ExpectedAttributes(block) ==
    Concat([i \in 1..Len(named_children(block)) |->
               (IF i > 1 THEN CommaSpace ELSE <<>>)
               \o ExpectedAttribute(named_children(block)[i])])

\* every attribute of the block has the grammar's shape and a value of one
\* of the three forms the specification names
ClaimedAttributes(block) ==
    \A i \in 1..Len(named_children(block)) :
        LET a == named_children(block)[i]
        IN  /\ AttributeShaped(a)
            /\ Len(named_children(a)) = 2 =>
                   named_children(a)[2].kind \in {"javascript", "quoted_attribute_value"}

\* the text traverse_tree appends for a sequence of nodes
Rendered(nodes) == traverse_each(nodes, pug_text, EmptyState).html_text

\* C1: a void tag renders as "<name", optionally a space and the attribute
\* text, then "/>" and nothing more, whatever children follow the name
C1_VoidTagSelfCloses ==
    (Visited /\ TagShaped(cur) /\ TagNameOf(cur) \in VoidNames
     /\ \A b \in AttributeBlocks(cur) : ClaimedAttributes(b))
    => \E attrs \in { <<>> } \cup { Space \o ExpectedAttributes(b) : b \in AttributeBlocks(cur) } :
           Appended = Lt \o TagNameOf(cur) \o attrs \o SlashGt

\* C2: a non-void tag renders as "<name ATTRS>BODY</name>" in every order of
\* its attributes, content and children blocks: attribute text before the
\* single ">", the content and children renderings after it
C2_NonVoidTagForm ==
    (Visited /\ TagShaped(cur) /\ TagNameOf(cur) = T_div
     /\ \A b \in AttributeBlocks(cur) : ClaimedAttributes(b))
    => LET kids == named_children(cur)
           attrs == Concat([i \in 1..(Len(kids) - 1) |->
                               IF kids[i + 1].kind = "attributes"
                               THEN Space \o ExpectedAttributes(kids[i + 1]) ELSE <<>>])
           body == Rendered(SelectSeq(Tail(kids), LAMBDA k : k.kind # "attributes"))
       IN  Appended = Lt \o T_div \o attrs \o Gt \o body \o CloseTag(T_div)

UpperCase == <<"A", "B", "C", "D", "E", "F", "G", "H", "I", "J", "K", "L", "M",
               "N", "O", "P", "Q", "R", "S", "T", "U", "V", "W", "X", "Y", "Z">>
LowerCase == <<"a", "b", "c", "d", "e", "f", "g", "h", "i", "j", "k", "l", "m",
               "n", "o", "p", "q", "r", "s", "t", "u", "v", "w", "x", "y", "z">>

\* ASCII lowercasing of a text
to_lowercase(text) ==
    [i \in 1..Len(text) |->
        IF \E k \in 1..26 : UpperCase[k] = text[i]
        THEN LowerCase[CHOOSE k \in 1..26 : UpperCase[k] = text[i]]
        ELSE text[i]]

\* C3: the voidness the tag renderer uses for a tag is that of the
\* lowercased name: void exactly when the lowercase name is in the void set
C3_VoidnessOfLowercaseName ==
    (Visited /\ TagShaped(cur))
    => (is_void_element(TagNameOf(cur)) <=> to_lowercase(TagNameOf(cur)) \in VoidNames)

\* a tag whose name is followed by an attributes block of claimed attributes
AttributesTag ==
    /\ Visited
    /\ TagShaped(cur)
    /\ Len(named_children(cur)) >= 2
    /\ named_children(cur)[2].kind = "attributes"
    /\ ClaimedAttributes(named_children(cur)[2])

\* C4: an attributes block renders as its attributes' renderings joined by
\* ", " (no separator before the first or after the last, nothing for an
\* empty block); a rendering is name= followed by the quoted expression, the
\* verbatim quoted literal, or 'name' when there is no value; and main's own
\* input prints <tag attribute='isAuthenticated ? true : false',
\* attribute='attribute'><tag_two attribute='attribute'></tag_two></tag>
C4_AttributesJoined ==
    /\ AttributesTag
       => LET open == Lt \o TagNameOf(cur) \o Space
                      \o ExpectedAttributes(named_children(cur)[2])
          IN  /\ IsPrefix(open, Appended)
              /\ Len(Appended) > Len(open)
              /\ Appended[Len(open) + 1] \in {">", "/"}
    /\ (pug_text = Flat(MainLayout) /\ todo = <<>>)
       => /\ pc \in {"traverse", "done"}
          /\ state.html_text =
                 Lt \o T_tag \o Space
                 \o T_attribute \o Eq \o Quote \o T_isAuthenticated \o Quote
                 \o CommaSpace \o T_attribute \o Eq \o Quote \o T_attribute \o Quote
                 \o Gt
                 \o Lt \o T_tag_two \o Space
                 \o T_attribute \o Eq \o Quote \o T_attribute \o Quote \o Gt
                 \o CloseTag(T_tag_two) \o CloseTag(T_tag)
          /\ Len(state.ranges) = 8
          /\ pc = "done" => result.html_text = state.html_text

\* C4 witness: two attributes, an expression value then a valueless one,
\* rendered after earlier output
C4_Witness ==
    /\ AttributesTag
    /\ Len(prev.html_text) > 0
    /\ LET as == named_children(named_children(cur)[2])
       IN  /\ Len(as) = 2
           /\ Len(named_children(as[1])) = 2
           /\ named_children(as[1])[2].kind = "javascript"
           /\ Len(named_children(as[2])) = 1

\* the output spans [lo, hi) of the values synthesized for the valueless
\* attributes of such a tag's attributes block, with the attribute's name node
SynthesizedValues ==
    LET as == named_children(named_children(cur)[2])
        base == Len(prev.html_text) + 1 + Len(TagNameOf(cur)) + 1
        before(i) == Len(Concat([j \in 1..(i - 1) |->
                            (IF j > 1 THEN CommaSpace ELSE <<>>) \o ExpectedAttribute(as[j])]))
                     + (IF i > 1 THEN 2 ELSE 0)
    IN  { [lo |-> base + before(i) + Len(utf8_text(named_children(as[i])[1], pug_text)) + 1,
           hi |-> base + before(i) + Len(ExpectedAttribute(as[i])),
           name |-> named_children(as[i])[1]] :
          i \in { j \in 1..Len(as) : Len(named_children(as[j])) = 1 } }

\* every record's output slice is the very text of the source span it maps
RecordsAreVerbatim ==
    \A i \in 1..Len(state.ranges) :
        LET r == state.ranges[i]
        IN  SubSeq(state.html_text, r.html_start + 1, r.html_end)
            = SubSeq(pug_text, r.pug_start + 1, r.pug_end)

\* C5 as stated: no record covers synthesized output; in particular the
\* value synthesized for a valueless attribute lies outside every record
C5_NoRecordOnSynthesized ==
    /\ Visited => RecordsAreVerbatim
    /\ AttributesTag
       => \A v \in SynthesizedValues : \A i \in 1..Len(state.ranges) :
              \/ state.ranges[i].html_end <= v.lo
              \/ state.ranges[i].html_start >= v.hi

\* C5 amended: records never cover punctuation, separators, wrappers or
\* closing tags (each record's output slice is its source slice), but the
\* name inside a synthesized 'name' value is recorded, once, against the
\* attribute name's source span; only its two quotes are unrecorded
C5_SynthesizedValueRecorded ==
    /\ Visited => RecordsAreVerbatim
    /\ AttributesTag
       => \A v \in SynthesizedValues :
              LET hits == { i \in 1..Len(state.ranges) :
                              /\ state.ranges[i].html_end > v.lo
                              /\ state.ranges[i].html_start < v.hi }
              IN  /\ Cardinality(hits) = 1
                  /\ \A i \in hits :
                         state.ranges[i] = [html_start |-> v.lo + 1, html_end |-> v.hi - 1,
                                            pug_start |-> v.name.start,
                                            pug_end |-> v.name.end]

\* C5 witness: a valueless attribute was rendered after an expression-valued one
C5_Witness ==
    /\ AttributesTag
    /\ Len(named_children(named_children(cur)[2])) = 2
    /\ Len(named_children(named_children(named_children(cur)[2])[1])) = 2
    /\ SynthesizedValues # {}
    /\ Len(state.ranges) >= 4

\* the marker of an expression node
Marker(node) == ScriptOpen \o utf8_text(node, pug_text) \o ScriptClose

\* C6 as stated: a tag interpolation appends one marker, with one record,
\* per named child after its first child
C6_MarkerPerChild ==
    (Visited /\ cur.kind = "tag_interpolation")
    => LET rest == SelectSeq(SubSeq(cur.children, 2, Len(cur.children)), LAMBDA c : c.named)
       IN  /\ Appended = Concat([i \in 1..Len(rest) |-> Marker(rest[i])])
           /\ Len(NewRanges) = Len(rest)
           /\ \A i \in 1..Len(rest) :
                  /\ NewRanges[i].pug_start = rest[i].start
                  /\ NewRanges[i].pug_end = rest[i].end

\* the node a cursor reaches by goto_first_child then goto_next_sibling
SecondChild(node) ==
    IF Len(node.children) >= 2 THEN node.children[2]
    ELSE IF Len(node.children) = 1 THEN node.children[1]
    ELSE node

\* C6 amended: a tag interpolation emits no marker of its own; it renders,
\* by dispatch on their kind and in order, the named children of its second
\* child (of its only child, when it has one child), and nothing else
C6_RendersSecondChildsChildren ==
    (Visited /\ cur.kind = "tag_interpolation")
    => /\ state = traverse_each(named_children(SecondChild(cur)), pug_text, prev)
       /\ named_children(SecondChild(cur)) = <<>> => (Appended = <<>> /\ NewRanges = <<>>)
       /\ (SecondChild(cur).kind = "tag" /\ Len(named_children(SecondChild(cur))) = 2
           /\ named_children(SecondChild(cur))[2].kind = "content")
          => /\ Appended = utf8_text(named_children(SecondChild(cur))[2], pug_text)
             /\ Len(NewRanges) = 1

\* C6 witness: a tag interpolation whose second child is a tag with content
C6_Witness ==
    /\ Visited
    /\ cur.kind = "tag_interpolation"
    /\ Len(cur.children) = 3
    /\ cur.children[2].kind = "tag"
    /\ Appended = T_hi
    /\ Len(prev.html_text) > 0

\* the grammar's shape of a conditional: a keyword, an optional condition,
\* an optional unnamed token, an optional body block
ConditionalShaped(node) ==
    /\ node.kind = "conditional"
    /\ Len(node.children) >= 1
    /\ node.children[1].kind = "keyword"
    /\ \A i \in 2..Len(node.children) :
           \/ i = 2 /\ node.children[i].kind = "javascript"
           \/ ~node.children[i].named
           \/ i = Len(node.children) /\ node.children[i].kind = "children"

HasCondition(node) == Len(node.children) >= 2 /\ node.children[2].kind = "javascript"

\* the children of the body block, none when there is no block
BodyChildren(node) ==
    IF node.children[Len(node.children)].kind = "children"
    THEN named_children(node.children[Len(node.children)])
    ELSE <<>>

\* a tag that is a name and at most a content, as the specification renders it
PlainTag(t) ==
    /\ TagShaped(t)
    /\ ~is_void_element(utf8_text(named_children(t)[1], pug_text))
    /\ Len(named_children(t)) <= 2
    /\ Len(named_children(t)) = 2 =>
           (named_children(t)[2].kind = "content" /\ named_children(t)[2].children = <<>>)

ExpectedPlainTag(t) ==
    LET name == utf8_text(named_children(t)[1], pug_text)
    IN  Lt \o name \o Gt
        \o (IF Len(named_children(t)) = 2 THEN utf8_text(named_children(t)[2], pug_text)
            ELSE <<>>)
        \o CloseTag(name)

\* C7: a conditional renders the marker of its condition, recorded against
\* the condition's source span, immediately followed by every body child in
\* order; without a condition there is no marker and the body is the same
C7_ConditionalMarkerThenBody ==
    (Visited /\ ConditionalShaped(cur) /\ \A i \in 1..Len(BodyChildren(cur)) :
                                              PlainTag(BodyChildren(cur)[i]))
    => LET body == Concat([i \in 1..Len(BodyChildren(cur)) |->
                              ExpectedPlainTag(BodyChildren(cur)[i])])
       IN  IF HasCondition(cur)
           THEN /\ Appended = Marker(cur.children[2]) \o body
                /\ NewRanges # <<>>
                /\ NewRanges[1] =
                       [html_start |-> Len(prev.html_text) + Len(ScriptOpen),
                        html_end |-> Len(prev.html_text) + Len(ScriptOpen)
                                     + Len(utf8_text(cur.children[2], pug_text)),
                        pug_start |-> cur.children[2].start,
                        pug_end |-> cur.children[2].end]
           ELSE Appended = body

\* C7 witness: a condition, a token after it, and a body of two tags
C7_Witness ==
    /\ Visited
    /\ ConditionalShaped(cur)
    /\ HasCondition(cur)
    /\ Len(cur.children) = 4
    /\ Len(BodyChildren(cur)) = 2
    /\ Len(prev.html_text) > 0

\* a structural contract is violated in the node: a tag whose first named
\* child is missing or no name node, an attribute without a name child
ContractViolated(node) ==
    /\ node.kind = "tag"
    /\ \/ named_children(node) = <<>>
       \/ named_children(node)[1].kind # "tag_name"
       \/ \E i \in 2..Len(named_children(node)) :
              /\ named_children(node)[i].kind = "attributes"
              /\ \E j \in 1..Len(named_children(named_children(node)[i])) :
                     LET a == named_children(named_children(node)[i])[j]
                     IN  \/ named_children(a) = <<>>
                         \/ named_children(a)[1].kind # "attribute_name"

\* C8: once a node with a violated structural contract has been traversed
\* the run is aborted: the traversal does not go on and main returns nothing
C8_ViolationAborts ==
    (cur # None /\ ContractViolated(cur))
    => (pc = "aborted" /\ result = None /\ state.html_text = <<>>)

\* the named children of the content are string interpolations with an
\* expression
StringInterpolationsOnly(node) ==
    \A i \in 1..Len(named_children(node)) :
        /\ named_children(node)[i].kind = "escaped_string_interpolation"
        /\ named_children(named_children(node)[i]) # <<>>

\* C9: a content renders the markers of its interpolations, each with its
\* record, before its own whole text; the content's record is the last one
\* and spans the content's source range; the interpolations' output spans
\* end at or before the content's output span starts
C9_InterpolationsBeforeContent ==
    (Visited /\ cur.kind = "content")
    => LET text == utf8_text(cur, pug_text)
           kids == named_children(cur)
           last == NewRanges[Len(NewRanges)]
       IN  /\ NewRanges # <<>>
           /\ last = [html_start |-> Len(state.html_text) - Len(text),
                      html_end |-> Len(state.html_text),
                      pug_start |-> cur.start, pug_end |-> cur.end]
           /\ SubSeq(state.html_text, last.html_start + 1, last.html_end) = text
           /\ \A i \in 1..(Len(NewRanges) - 1) : NewRanges[i].html_end <= last.html_start
           /\ StringInterpolationsOnly(cur)
              => /\ Appended = Concat([i \in 1..Len(kids) |-> Marker(named_children(kids[i])[1])])
                               \o text
                 /\ Len(NewRanges) = Len(kids) + 1
                 /\ \A i \in 1..Len(kids) :
                        /\ NewRanges[i].pug_start = named_children(kids[i])[1].start
                        /\ NewRanges[i].pug_end = named_children(kids[i])[1].end
                        /\ NewRanges[i].html_end - NewRanges[i].html_start
                           = Len(utf8_text(named_children(kids[i])[1], pug_text))

\* C9 witness: a content with exactly one interpolation gave two records
C9_Witness ==
    /\ Visited
    /\ cur.kind = "content"
    /\ Len(named_children(cur)) = 1
    /\ StringInterpolationsOnly(cur)
    /\ Len(NewRanges) = 2
    /\ NewRanges[1].html_end < NewRanges[2].html_start
    /\ Len(prev.html_text) > 0

\* the record list is ordered, non-overlapping and within the output
RecordsOrdered ==
    /\ \A i \in 1..Len(state.ranges) :
           /\ state.ranges[i].html_start <= state.ranges[i].html_end
           /\ state.ranges[i].html_end <= Len(state.html_text)
    /\ \A i \in 1..(Len(state.ranges) - 1) :
           /\ state.ranges[i].html_end <= state.ranges[i + 1].html_start
           /\ state.ranges[i].html_start <= state.ranges[i + 1].html_start

\* a step only appends to the output, keeps every record, and adds at most
\* one record, which spans exactly the text the step appended
RecorderStep ==
    /\ IsPrefix(state.html_text, state'.html_text)
    /\ IsPrefix(state.ranges, state'.ranges)
    /\ Len(state'.ranges) <= Len(state.ranges) + 1
    /\ Len(state'.ranges) = Len(state.ranges) + 1
       => LET r == state'.ranges[Len(state'.ranges)]
          IN  /\ r.html_start = Len(state.html_text)
              /\ r.html_end - r.html_start = Len(state'.html_text) - Len(state.html_text)

\* C10: under any sequence of push_range calls the output only grows by
\* appending, records stay ordered, non-overlapping and within the output,
\* a record's length is the length of the text its call appended, and
\* existing records are never modified or removed
C10_RecorderInvariant == [](RecordsOrdered) /\ [][RecorderStep]_vars

\* C10 witness: two records with unrecorded text between and after them
C10_Witness ==
    /\ pc = "push"
    /\ Len(state.ranges) = 2
    /\ state.ranges[1].html_end < state.ranges[2].html_start
    /\ state.ranges[2].html_end < Len(state.html_text)

====
